---- MODULE Spec2Model ----
(***************************************************************************)
(* Model of the solhub chat server (src/unnamed/part_000, lines 386-1173): *)
(* the socket.io handlers join / sendMessage / broadcastMessage /          *)
(* disconnect, the admin HTTP routes that delete or create messages and    *)
(* channels, the in-memory Map activeConnections and the Mongo collections *)
(* User, Message and Channel.                                              *)
(*                                                                         *)
(* Node runs one callback at a time, so a handler is atomic between two    *)
(* awaits.  Every await of a store call is a suspension point: the store   *)
(* applies the call at some later instant, and the handler resumes at some *)
(* instant after that.  A step of the model is either the synchronous      *)
(* start of a handler (up to its first await), or the store applying a     *)
(* pending call, merged with the continuation when that continuation       *)
(* touches neither activeConnections nor the set of live sockets, or a     *)
(* continuation that does touch them (bind / finish / emit).               *)
(***************************************************************************)
EXTENDS Integers, Sequences, FiniteSets, TLC

VARIABLES
    userDocs,           \* collection User: sequence of documents, _id = index
    messageDocs,        \* collection Message: set of documents
    channelDocs,        \* collection Channel: set of documents
    nextId,             \* next fresh _id for Message and Channel documents
    voiceChannelDocs,   \* collection VoiceChannel: set of documents
    roleDocs,           \* collection Role: set of documents
    activeConnections,  \* the Map socket.id -> user _id
    sockets,            \* socket.id -> "new" | "open" | "closed"
    tasks,              \* handlers suspended at an await, one per slot
    nEvents,            \* number of socket events and HTTP requests received
    nBroadcasts,        \* number of broadcastMessage events among them
    event,              \* what the last step handled: [kind, conn, pc]
    emitted             \* the emit calls of the last step, in order

vars == <<userDocs, messageDocs, channelDocs, nextId, voiceChannelDocs, roleDocs,
          activeConnections, sockets, tasks, nEvents, nBroadcasts, event, emitted>>

store == <<userDocs, messageDocs, channelDocs, nextId>>
counters == <<nEvents, nBroadcasts>>
adminStore == <<voiceChannelDocs, roleDocs>>

\* ---------------------------------------------------------------- bounds
MaxEvents == 3
MaxInFlight == 2
MaxBroadcasts == 1

\* ------------------------------------------------------------- constants
Null == "null"

Sockets == {"s1", "s2"}

\* const channels = [...]                                  part_000:415
channels == <<"general", "trading", "nft", "defi", "announcements">>

\* const defaultVoiceChannels = [...]                     part_000:446
defaultVoiceChannels == <<"VOICE_CALL_#1*", "VOICE_CALL_#2*", "VOICE_CALL_#3*">>

\* messageSchema.channel enum                              part_001:72
ChannelEnum == {"general", "trading", "nft", "defi", "announcements"}

SystemUser ==
    [id |-> 1, username |-> "system", walletAddress |-> "0x0", avatar |-> Null,
     role |-> "user", isOnline |-> FALSE, socketId |-> Null]

\* join payloads with non-empty username and walletAddress
JoinPayloads ==
    { [username |-> "alice", walletAddress |-> "0xA", avatar |-> Null, role |-> Null],
      [username |-> "alice", walletAddress |-> "0xB", avatar |-> "a.png", role |-> "mod"],
      [username |-> "bob", walletAddress |-> "0xB", avatar |-> Null, role |-> Null] }

NoUser == [id |-> 0]
NoData == [none |-> TRUE]
NoMsg == [id |-> 0]
NoChan == [id |-> 0]

Slots == 1..MaxInFlight

Idle ==
    [kind |-> "idle", conn |-> Null, pc |-> "idle", data |-> NoData, userId |-> 0,
     user |-> NoUser, doc |-> NoUser, msg |-> NoMsg, chan |-> NoChan, idx |-> 0, acc |-> <<>>]

\* a JavaScript string-or-null, and an _id-or-undefined, used as a condition
Truthy(v) == v # Null /\ v # ""
TruthyId(id) == id # 0

Live == {s \in Sockets : sockets[s] = "open"}

HasFree == \E t \in Slots : tasks[t].kind = "idle"
FreeSlot == CHOOSE t \in Slots : tasks[t].kind = "idle" /\ \A u \in Slots : u < t => tasks[u].kind # "idle"

Quiescent == \A t \in Slots : tasks[t].kind = "idle"

Spawn(task) == tasks' = [tasks EXCEPT ![FreeSlot] = task]
Finish(t) == tasks' = [tasks EXCEPT ![t] = Idle]

Ev(kind, conn, pc) == [kind |-> kind, conn |-> conn, pc |-> pc]

\* socket.emit(ev, body): to the originating socket only
SocketEmit(s, ev, body) == [ev |-> ev, to |-> {s}, body |-> body]
\* socket.broadcast.emit(ev, body): to every connected socket but the originating one
SocketBroadcastEmit_toAll(s, ev, body) == [ev |-> ev, to |-> Live, body |-> body]
SocketBroadcastEmit(s, ev, body) == [ev |-> ev, to |-> Live \ {s}, body |-> body]
\* io.emit(ev, body): to every connected socket
IoEmit_joinedOnly(ev, body) == [ev |-> ev, to |-> Live \cap DOMAIN activeConnections, body |-> body]
IoEmit(ev, body) == [ev |-> ev, to |-> Live, body |-> body]

\* activeConnections.get / set / delete / size
MapHas(s) == s \in DOMAIN activeConnections
MapGet_someUser(s) == IF MapHas(s) THEN activeConnections[s] ELSE 1
MapGet(s) == IF MapHas(s) THEN activeConnections[s] ELSE 0
MapSet(s, id) == [x \in DOMAIN activeConnections \cup {s} |-> IF x = s THEN id ELSE activeConnections[x]]
MapDelete(s) == [x \in DOMAIN activeConnections \ {s} |-> activeConnections[x]]
connectedUsers == Cardinality(DOMAIN activeConnections)

\* ------------------------------------------------------------ User store
UserIds == 1..Len(userDocs)

\* User.findById(id)
UserFindById(id) == IF id \in UserIds THEN userDocs[id] ELSE NoUser

\* the filter { $or: [{username}, {walletAddress}] }
MatchesOr(u, d) == u.username = d.username \/ u.walletAddress = d.walletAddress

\* User.findOne({$or: ...}): one of the matching documents, or none
UserFindOne(d) ==
    LET hits == {userDocs[i] : i \in {j \in UserIds : MatchesOr(userDocs[j], d)}}
    IN  IF hits = {} THEN {NoUser} ELSE hits

\* the unique indexes on username and walletAddress
DuplicateKey(doc) ==
    \E i \in UserIds : userDocs[i].username = doc.username
                       \/ userDocs[i].walletAddress = doc.walletAddress

UserFields == {"id", "username", "walletAddress", "avatar", "role", "isOnline", "socketId"}

\* document.save() of a loaded document: $set of the paths whose value was changed
SaveLoaded_wholeDocument(loaded, doc) == [userDocs EXCEPT ![loaded.id] = doc]
SaveLoaded(loaded, doc) ==
    [userDocs EXCEPT ![loaded.id] =
        [f \in UserFields |-> IF doc[f] # loaded[f] THEN doc[f] ELSE userDocs[loaded.id][f]]]

\* new User({...}) in the join handler
NewUser(d, s) ==
    [id |-> 0, username |-> d.username, walletAddress |-> d.walletAddress,
     avatar |-> IF Truthy(d.avatar) THEN d.avatar ELSE Null,
     role |-> IF Truthy(d.role) THEN d.role ELSE "user",
     isOnline |-> TRUE, socketId |-> s]

\* the assignments of the join handler to an existing user
JoinUpdate(u, d, s) ==
    [u EXCEPT !.isOnline = TRUE, !.socketId = s,
              !.avatar = IF Truthy(d.avatar) THEN d.avatar ELSE u.avatar,
              !.role = IF Truthy(d.role) THEN d.role ELSE u.role]

\* the assignments of the leave branch and of the disconnect handler
SetOffline(u) == [u EXCEPT !.isOnline = FALSE, !.socketId = Null]

\* ----------------------------------------------------------------- Init
\* the state once initializeChannels has run on an empty database
Init ==
    /\ userDocs = <<SystemUser>>
    /\ messageDocs = {}
    /\ channelDocs = {[id |-> i, name |-> channels[i], messageCount |-> 0] : i \in 1..Len(channels)}
    /\ nextId = Len(channels) + 1
    /\ voiceChannelDocs = {[id |-> i, name |-> defaultVoiceChannels[i]] : i \in 1..Len(defaultVoiceChannels)}
    /\ roleDocs = {}
    /\ activeConnections = <<>>
    /\ sockets = [s \in Sockets |-> "new"]
    /\ tasks = [t \in Slots |-> Idle]
    /\ nEvents = 0
    /\ nBroadcasts = 0
    /\ event = Ev("init", Null, "init")
    /\ emitted = <<>>

\* ---------------------------------------------------------- connection
\* io.on('connection')
Connect(s) ==
    /\ sockets[s] = "new"
    /\ sockets' = [sockets EXCEPT ![s] = "open"]
    /\ event' = Ev("connection", s, "start")
    /\ emitted' = <<>>
    /\ UNCHANGED <<store, activeConnections, tasks, counters>>
    /\ UNCHANGED adminStore

\* ------------------------------------------------------- socket.on('join')
\* a payload with username and walletAddress: up to await User.findOne
JoinStart(s, d) ==
    /\ sockets[s] = "open"
    /\ nEvents < MaxEvents
    /\ HasFree
    /\ Truthy(d.username) /\ Truthy(d.walletAddress)
    /\ Spawn([Idle EXCEPT !.kind = "join", !.conn = s, !.pc = "findOne", !.data = d])
    /\ nEvents' = nEvents + 1 /\ UNCHANGED nBroadcasts
    /\ event' = Ev("join", s, "start")
    /\ emitted' = <<>>
    /\ UNCHANGED <<store, activeConnections, sockets>>
    /\ UNCHANGED adminStore

\* User.findOne answers; the handler builds or updates the document and calls save
JoinFindOne(t) ==
    /\ tasks[t].kind = "join" /\ tasks[t].pc = "findOne"
    /\ \E u \in UserFindOne(tasks[t].data) :
          LET tk == tasks[t]
          IN  tasks' = [tasks EXCEPT ![t] =
                  IF u = NoUser
                  THEN [tk EXCEPT !.pc = "insert", !.doc = NewUser(tk.data, tk.conn)]
                  ELSE [tk EXCEPT !.pc = "update", !.user = u, !.doc = JoinUpdate(u, tk.data, tk.conn)]]
    /\ event' = Ev("join", tasks[t].conn, "findOne")
    /\ emitted' = <<>>
    /\ UNCHANGED <<store, activeConnections, sockets, counters>>
    /\ UNCHANGED adminStore

\* the catch block of the join handler: socket.emit('joinError')
JoinError_toAll(t) == IoEmit("joinError", NoData)
JoinError(t) == SocketEmit(tasks[t].conn, "joinError", NoData)

\* the store applies user.save() of a new user; a duplicate key rejects it
\* and the catch block emits joinError
JoinInsert(t) ==
    /\ tasks[t].kind = "join" /\ tasks[t].pc = "insert"
    /\ event' = Ev("join", tasks[t].conn, "insert")
    /\ IF DuplicateKey(tasks[t].doc)
       THEN /\ emitted' = <<JoinError(t)>>
            /\ Finish(t)
            /\ UNCHANGED userDocs
       ELSE /\ userDocs' = Append(userDocs, [tasks[t].doc EXCEPT !.id = Len(userDocs) + 1])
            /\ tasks' = [tasks EXCEPT ![t].pc = "bind", ![t].doc.id = Len(userDocs) + 1]
            /\ emitted' = <<>>
    /\ UNCHANGED <<messageDocs, channelDocs, nextId, activeConnections, sockets, counters>>
    /\ UNCHANGED adminStore

\* the store applies user.save() of an existing user
JoinSave(t) ==
    /\ tasks[t].kind = "join" /\ tasks[t].pc = "update"
    /\ userDocs' = SaveLoaded(tasks[t].user, tasks[t].doc)
    /\ tasks' = [tasks EXCEPT ![t].pc = "bind"]
    /\ event' = Ev("join", tasks[t].conn, "update")
    /\ emitted' = <<>>
    /\ UNCHANGED <<messageDocs, channelDocs, nextId, activeConnections, sockets, counters>>
    /\ UNCHANGED adminStore

\* after the save: activeConnections.set and socket.broadcast.emit('userJoined')
JoinBound(t) == MapSet(tasks[t].conn, tasks[t].doc.id)
JoinEmit(t) ==
    SocketBroadcastEmit(tasks[t].conn, "userJoined",
        [username |-> tasks[t].doc.username, avatar |-> tasks[t].doc.avatar, isOnline |-> TRUE])

JoinBind(t) ==
    /\ tasks[t].kind = "join" /\ tasks[t].pc = "bind"
    /\ activeConnections' = JoinBound(t)
    /\ emitted' = <<JoinEmit(t)>>
    /\ Finish(t)
    /\ event' = Ev("join", tasks[t].conn, "bind")
    /\ UNCHANGED <<store, sockets, counters>>
    /\ UNCHANGED adminStore

\* a store call of the join handler rejects (User.findOne, or user.save()
\* before or after the store applied it): the catch block emits joinError
JoinFail(t) ==
    /\ tasks[t].kind = "join" /\ tasks[t].pc \in {"findOne", "insert", "update", "bind"}
    /\ emitted' = <<JoinError(t)>>
    /\ Finish(t)
    /\ event' = Ev("join", tasks[t].conn, "fail")
    /\ UNCHANGED <<store, activeConnections, sockets, counters>>
    /\ UNCHANGED adminStore

\* ------------------------------------ socket.on('join') with a null payload
\* explicit leave: up to await User.findById, or nothing without an entry
LeaveStart(s) ==
    /\ sockets[s] = "open"
    /\ nEvents < MaxEvents
    /\ nEvents' = nEvents + 1 /\ UNCHANGED nBroadcasts
    /\ emitted' = <<>>
    /\ IF TruthyId(MapGet(s))
       THEN /\ HasFree
            /\ Spawn([Idle EXCEPT !.kind = "leave", !.conn = s, !.pc = "findById", !.userId = MapGet(s)])
            /\ event' = Ev("leave", s, "start")
       ELSE /\ event' = Ev("leave", s, "noEntry")
            /\ UNCHANGED tasks
    /\ UNCHANGED <<store, activeConnections, sockets>>
    /\ UNCHANGED adminStore

\* User.findById answers; the handler sets the user offline and calls save
OfflineFindById(t, kind) ==
    /\ tasks[t].kind = kind /\ tasks[t].pc = "findById"
    /\ LET u == UserFindById(tasks[t].userId)
       IN  IF u = NoUser
           THEN /\ Finish(t)
                /\ activeConnections' = IF kind = "disconnect" THEN MapDelete(tasks[t].conn)
                                                                ELSE activeConnections
           ELSE /\ tasks' = [tasks EXCEPT ![t].pc = "save", ![t].user = u, ![t].doc = SetOffline(u)]
                /\ UNCHANGED activeConnections
    /\ event' = Ev(kind, tasks[t].conn, "findById")
    /\ emitted' = <<>>
    /\ UNCHANGED <<store, sockets, counters>>
    /\ UNCHANGED adminStore

\* the store applies user.save()
OfflineSave(t, kind) ==
    /\ tasks[t].kind = kind /\ tasks[t].pc = "save"
    /\ userDocs' = SaveLoaded(tasks[t].user, tasks[t].doc)
    /\ tasks' = [tasks EXCEPT ![t].pc = "finish"]
    /\ event' = Ev(kind, tasks[t].conn, "save")
    /\ emitted' = <<>>
    /\ UNCHANGED <<messageDocs, channelDocs, nextId, activeConnections, sockets, counters>>
    /\ UNCHANGED adminStore

\* after the save: socket.broadcast.emit('userLeft') and activeConnections.delete
LeftEmit(t) ==
    SocketBroadcastEmit(tasks[t].conn, "userLeft",
        [username |-> tasks[t].doc.username, avatar |-> tasks[t].doc.avatar])
Unbound(t) == MapDelete(tasks[t].conn)

OfflineFinish(t, kind) ==
    /\ tasks[t].kind = kind /\ tasks[t].pc = "finish"
    /\ emitted' = <<LeftEmit(t)>>
    /\ activeConnections' = Unbound(t)
    /\ Finish(t)
    /\ event' = Ev(kind, tasks[t].conn, "finish")
    /\ UNCHANGED <<store, sockets, counters>>
    /\ UNCHANGED adminStore

LeaveFindById(t) == OfflineFindById(t, "leave")
LeaveSave(t) == OfflineSave(t, "leave")
LeaveFinish(t) == OfflineFinish(t, "leave")

\* ------------------------------------------------------- socket.on('typing')
\* typing payloads {isTyping}
TypingPayloads == { [isTyping |-> TRUE], [isTyping |-> FALSE] }

\* socket.broadcast.emit('userTyping', {userId, isTyping})
UserTyping_toAll(s, d) == IoEmit("userTyping", [userId |-> MapGet(s), isTyping |-> d.isTyping])
UserTyping(s, d) ==
    SocketBroadcastEmit(s, "userTyping", [userId |-> MapGet(s), isTyping |-> d.isTyping])

\* the handler is synchronous; the event records the flag it was given
Typing(s, d) ==
    /\ sockets[s] = "open"
    /\ nEvents < MaxEvents
    /\ nEvents' = nEvents + 1 /\ UNCHANGED nBroadcasts
    /\ IF TruthyId(MapGet(s))
       THEN /\ emitted' = <<UserTyping(s, d)>>
            /\ event' = Ev("typing", s, IF d.isTyping THEN "isTyping" ELSE "notTyping")
       ELSE /\ emitted' = <<>>
            /\ event' = Ev("typing", s, "noEntry")
    /\ UNCHANGED <<store, activeConnections, sockets, tasks>>
    /\ UNCHANGED adminStore

\* --------------------------------------------------- socket.on('disconnect')
\* the transport closes; the handler runs up to await User.findById
DisconnectStart(s) ==
    /\ sockets[s] = "open"
    /\ sockets' = [sockets EXCEPT ![s] = "closed"]
    /\ nEvents < MaxEvents
    /\ nEvents' = nEvents + 1 /\ UNCHANGED nBroadcasts
    /\ emitted' = <<>>
    /\ IF TruthyId(MapGet(s))
       THEN /\ HasFree
            /\ Spawn([Idle EXCEPT !.kind = "disconnect", !.conn = s, !.pc = "findById", !.userId = MapGet(s)])
            /\ event' = Ev("disconnect", s, "start")
       ELSE /\ event' = Ev("disconnect", s, "noEntry")
            /\ UNCHANGED tasks
    /\ UNCHANGED <<store, activeConnections>>
    /\ UNCHANGED adminStore

DisconnectFindById(t) == OfflineFindById(t, "disconnect")
DisconnectSave(t) == OfflineSave(t, "disconnect")
DisconnectFinish(t) == OfflineFinish(t, "disconnect")

\* a store call of the disconnect handler rejects (User.findById, or
\* user.save() before or after the store applied it): the catch block logs,
\* nothing is emitted and activeConnections.delete is not reached
DisconnectFail(t) ==
    /\ tasks[t].kind = "disconnect" /\ tasks[t].pc \in {"findById", "save", "finish"}
    /\ emitted' = <<>>
    /\ Finish(t)
    /\ event' = Ev("disconnect", tasks[t].conn, "fail")
    /\ UNCHANGED <<store, activeConnections, sockets, counters>>
    /\ UNCHANGED adminStore

\* ------------------------------------------------- Message and Channel store
\* sendMessage payloads {text, channel?}; "lobby" is outside the schema's enum
SendPayloads ==
    { [text |-> "X", channel |-> Null],
      [text |-> "X", channel |-> "trading"],
      [text |-> "X", channel |-> "lobby"] }

\* broadcastMessage payloads {text}
BroadcastPayloads == { [text |-> "Y"] }

\* the precondition of sendMessage and broadcastMessage: !user || !user.isOnline
NotRegistered_ignoresOnline(u) == u = NoUser
NotRegistered(u) == u = NoUser \/ ~u.isOnline

\* messageData.channel || 'general'
TargetChannel(d) == IF Truthy(d.channel) THEN d.channel ELSE "general"

\* new Message({...}) in sendMessage and broadcastMessage
NewMessage(u, text, channel, isBroadcast) ==
    [id |-> 0, username |-> u.username, text |-> text, channel |-> channel,
     avatar |-> u.avatar, userId |-> u.id, isBroadcast |-> isBroadcast]

\* the schema's validators that run in message.save()
MessageValid(m) == m.channel \in ChannelEnum /\ Truthy(m.text) /\ Truthy(m.username)

\* the body of a newMessage event
MessageBody(m) ==
    [id |-> m.id, username |-> m.username, text |-> m.text, avatar |-> m.avatar,
     channel |-> m.channel, isBroadcast |-> m.isBroadcast]

\* Channel.findOneAndUpdate({name}, {$inc: {messageCount: n}})
IncMessageCount_allChannels(name, n) ==
    {[c EXCEPT !.messageCount = c.messageCount + n] : c \in channelDocs}
IncMessageCount(name, n) ==
    {IF c.name = name THEN [c EXCEPT !.messageCount = c.messageCount + n] ELSE c : c \in channelDocs}

\* Message.deleteMany({channel: name})
DeleteManyMessages(name) == {m \in messageDocs : m.channel # name}

\* Message.findById / Channel.findById / Channel.findOne({name})
MessageFindById(id) ==
    IF \E m \in messageDocs : m.id = id THEN CHOOSE m \in messageDocs : m.id = id ELSE NoMsg
ChannelFindById(id) ==
    IF \E c \in channelDocs : c.id = id THEN CHOOSE c \in channelDocs : c.id = id ELSE NoChan
ChannelFindByName(name) ==
    IF \E c \in channelDocs : c.name = name THEN CHOOSE c \in channelDocs : c.name = name ELSE NoChan

\* ------------------------------------------------ socket.on('sendMessage')
\* up to await User.findById, or messageError without an entry
MessageStart(s, d, kind) ==
    /\ sockets[s] = "open"
    /\ nEvents < MaxEvents
    /\ nEvents' = nEvents + 1
    /\ IF kind = "broadcastMessage"
       THEN nBroadcasts < MaxBroadcasts /\ nBroadcasts' = nBroadcasts + 1
       ELSE UNCHANGED nBroadcasts
    /\ IF TruthyId(MapGet(s))
       THEN /\ HasFree
            /\ Spawn([Idle EXCEPT !.kind = kind, !.conn = s, !.pc = "findById",
                                  !.userId = MapGet(s), !.data = d])
            /\ event' = Ev(kind, s, "start")
            /\ emitted' = <<>>
       ELSE /\ event' = Ev(kind, s, "noEntry")
            /\ emitted' = <<SocketEmit(s, "messageError", NoData)>>
            /\ UNCHANGED tasks
    /\ UNCHANGED <<store, activeConnections, sockets>>
    /\ UNCHANGED adminStore

SendStart(s, d) == MessageStart(s, d, "sendMessage")

\* User.findById answers: messageError, or the message is built and save is called
SendFindById(t) ==
    /\ tasks[t].kind = "sendMessage" /\ tasks[t].pc = "findById"
    /\ LET tk == tasks[t]
           u == UserFindById(tk.userId)
       IN  IF NotRegistered(u)
           THEN /\ emitted' = <<SocketEmit(tk.conn, "messageError", NoData)>>
                /\ Finish(t)
           ELSE /\ emitted' = <<>>
                /\ tasks' = [tasks EXCEPT ![t] =
                       [tk EXCEPT !.pc = "save", !.user = u,
                                  !.msg = NewMessage(u, tk.data.text, TargetChannel(tk.data), FALSE)]]
    /\ event' = Ev("sendMessage", tasks[t].conn, "findById")
    /\ UNCHANGED <<store, activeConnections, sockets, counters>>
    /\ UNCHANGED adminStore

\* message.save(): a validation error goes to the catch block, else the
\* store inserts the document and Channel.findOneAndUpdate is called
MessageSave(t, kind) ==
    /\ tasks[t].kind = kind /\ tasks[t].pc = "save"
    /\ event' = Ev(kind, tasks[t].conn, "save")
    /\ IF MessageValid(tasks[t].msg)
       THEN /\ messageDocs' = messageDocs \cup {[tasks[t].msg EXCEPT !.id = nextId]}
            /\ nextId' = nextId + 1
            /\ tasks' = [tasks EXCEPT ![t].pc = "inc", ![t].msg.id = nextId]
            /\ emitted' = <<>>
       ELSE /\ emitted' = <<SocketEmit(tasks[t].conn, "messageError", NoData)>>
            /\ Finish(t)
            /\ UNCHANGED <<messageDocs, nextId>>
    /\ UNCHANGED <<userDocs, channelDocs, activeConnections, sockets, counters>>
    /\ UNCHANGED adminStore

SendSave(t) == MessageSave(t, "sendMessage")

\* the store applies Channel.findOneAndUpdate({name}, {$inc: {messageCount: 1}})
SendInc(t) ==
    /\ tasks[t].kind = "sendMessage" /\ tasks[t].pc = "inc"
    /\ channelDocs' = IncMessageCount(tasks[t].msg.channel, 1)
    /\ tasks' = [tasks EXCEPT ![t].pc = "emit"]
    /\ event' = Ev("sendMessage", tasks[t].conn, "inc")
    /\ emitted' = <<>>
    /\ UNCHANGED <<userDocs, messageDocs, nextId, activeConnections, sockets, counters>>
    /\ UNCHANGED adminStore

\* io.emit('newMessage', ...)
SendEmit(t) ==
    /\ tasks[t].kind = "sendMessage" /\ tasks[t].pc = "emit"
    /\ emitted' = <<IoEmit("newMessage", MessageBody(tasks[t].msg))>>
    /\ Finish(t)
    /\ event' = Ev("sendMessage", tasks[t].conn, "emit")
    /\ UNCHANGED <<store, activeConnections, sockets, counters>>
    /\ UNCHANGED adminStore

\* -------------------------------------------- socket.on('broadcastMessage')
BroadcastStart(s, d) == MessageStart(s, d, "broadcastMessage")

\* the channel of the i-th round of the loop for (const channelName of channels)
LoopChannel_firstOnly(i) == channels[1]
LoopChannel(i) == channels[i]

\* User.findById answers: messageError, or the loop starts with its first message
BroadcastFindById(t) ==
    /\ tasks[t].kind = "broadcastMessage" /\ tasks[t].pc = "findById"
    /\ LET tk == tasks[t]
           u == UserFindById(tk.userId)
       IN  IF NotRegistered(u)
           THEN /\ emitted' = <<SocketEmit(tk.conn, "messageError", NoData)>>
                /\ Finish(t)
           ELSE /\ emitted' = <<>>
                /\ tasks' = [tasks EXCEPT ![t] =
                       [tk EXCEPT !.pc = "save", !.user = u, !.idx = 1,
                                  !.msg = NewMessage(u, tk.data.text, LoopChannel(1), TRUE)]]
    /\ event' = Ev("broadcastMessage", tasks[t].conn, "findById")
    /\ UNCHANGED <<store, activeConnections, sockets, counters>>
    /\ UNCHANGED adminStore

BroadcastSave(t) == MessageSave(t, "broadcastMessage")

\* the store applies the $inc; the message is pushed on broadcastMessages and
\* the loop goes on with the next channel, or ends
BroadcastInc(t) ==
    /\ tasks[t].kind = "broadcastMessage" /\ tasks[t].pc = "inc"
    /\ channelDocs' = IncMessageCount(tasks[t].msg.channel, 1)
    /\ LET tk == tasks[t]
           acc == Append(tk.acc, MessageBody(tk.msg))
       IN  tasks' = [tasks EXCEPT ![t] =
               IF tk.idx < Len(channels)
               THEN [tk EXCEPT !.pc = "save", !.acc = acc, !.idx = tk.idx + 1,
                               !.msg = NewMessage(tk.user, tk.data.text, LoopChannel(tk.idx + 1), TRUE)]
               ELSE [tk EXCEPT !.pc = "emit", !.acc = acc, !.msg = NoMsg]]
    /\ event' = Ev("broadcastMessage", tasks[t].conn, "inc")
    /\ emitted' = <<>>
    /\ UNCHANGED <<userDocs, messageDocs, nextId, activeConnections, sockets, counters>>
    /\ UNCHANGED adminStore

\* broadcastMessages.forEach(message => io.emit('newMessage', message))
FanOut_reversed(acc) == [i \in 1..Len(acc) |-> IoEmit("newMessage", acc[Len(acc) + 1 - i])]
FanOut(acc) == [i \in 1..Len(acc) |-> IoEmit("newMessage", acc[i])]

\* the loop has ended: the synchronous forEach runs and the handler returns
BroadcastFanOut(t) ==
    /\ tasks[t].kind = "broadcastMessage" /\ tasks[t].pc = "emit"
    /\ emitted' = FanOut(tasks[t].acc)
    /\ Finish(t)
    /\ event' = Ev("broadcastMessage", tasks[t].conn, "emit")
    /\ UNCHANGED <<store, activeConnections, sockets, counters>>
    /\ UNCHANGED adminStore

\* a store call of the broadcastMessage handler rejects (User.findById, a
\* message.save() or a findOneAndUpdate, before or after the store applied
\* it): the catch block emits messageError and the loop is abandoned
\* (the catch block is outside the loop: the handler ends there)
AfterFailure_nextChannel(t) ==
    IF tasks[t].idx \in 1..(Len(channels) - 1)
    THEN [tasks[t] EXCEPT !.pc = "save", !.idx = tasks[t].idx + 1,
                          !.msg = NewMessage(tasks[t].user, tasks[t].data.text,
                                             LoopChannel(tasks[t].idx + 1), TRUE)]
    ELSE Idle
AfterFailure(t) == Idle

BroadcastFail(t) ==
    /\ tasks[t].kind = "broadcastMessage" /\ tasks[t].pc \in {"findById", "save", "inc", "emit"}
    /\ emitted' = <<SocketEmit(tasks[t].conn, "messageError", NoData)>>
    /\ tasks' = [tasks EXCEPT ![t] = AfterFailure(t)]
    /\ event' = Ev("broadcastMessage", tasks[t].conn, "fail")
    /\ UNCHANGED <<store, activeConnections, sockets, counters>>
    /\ UNCHANGED adminStore

\* ------------------------------------------------------ admin HTTP routes
\* ids a request names: of documents that exist or existed, except the three
\* default channels no request of the model targets
RequestIds == {i \in 1..(nextId - 1) : i <= 2 \/ i > Len(channels)}

\* POST /api/channels names; name.toLowerCase()
CreateNames == {"General", "extra"}
ToLowerCase(name) ==
    IF name = "General" THEN "general" ELSE IF name = "Mod" THEN "mod" ELSE name

\* an HTTP request: the route, the outcome of its synchronous part and req.params.id
HttpEv(kind, pc, id) == [kind |-> kind, conn |-> "http", pc |-> pc, id |-> id]

HttpStart(kind, pc, msg, chan) ==
    /\ nEvents < MaxEvents
    /\ nEvents' = nEvents + 1 /\ UNCHANGED nBroadcasts
    /\ HasFree
    /\ Spawn([Idle EXCEPT !.kind = kind, !.conn = "http", !.pc = pc, !.msg = msg, !.chan = chan])
    /\ event' = HttpEv(kind, "start", IF msg # NoMsg THEN msg.id ELSE chan.id)
    /\ emitted' = <<>>
    /\ UNCHANGED <<store, activeConnections, sockets>>
    /\ UNCHANGED adminStore

HttpReject(kind, status, id) ==
    /\ nEvents < MaxEvents
    /\ nEvents' = nEvents + 1 /\ UNCHANGED nBroadcasts
    /\ event' = HttpEv(kind, status, id)
    /\ emitted' = <<>>
    /\ UNCHANGED <<store, activeConnections, sockets, tasks>>
    /\ UNCHANGED adminStore

\* DELETE /api/messages/:id: Message.findById answers 404 or the message
DeleteMessageFind(id) ==
    IF MessageFindById(id) = NoMsg
    THEN HttpReject("deleteMessage", "404", id)
    ELSE HttpStart("deleteMessage", "delete", MessageFindById(id), NoChan)

\* the store applies Message.findByIdAndDelete(messageId)
DeleteMessageDelete(t) ==
    /\ tasks[t].kind = "deleteMessage" /\ tasks[t].pc = "delete"
    /\ messageDocs' = {m \in messageDocs : m.id # tasks[t].msg.id}
    /\ tasks' = [tasks EXCEPT ![t].pc = "dec"]
    /\ event' = Ev("deleteMessage", "http", "delete")
    /\ emitted' = <<>>
    /\ UNCHANGED <<userDocs, channelDocs, nextId, activeConnections, sockets, counters>>
    /\ UNCHANGED adminStore

\* the store applies Channel.findOneAndUpdate({name}, {$inc: {messageCount: -1}})
DeleteMessageDec(t) ==
    /\ tasks[t].kind = "deleteMessage" /\ tasks[t].pc = "dec"
    /\ channelDocs' = IncMessageCount(tasks[t].msg.channel, -1)
    /\ Finish(t)
    /\ event' = Ev("deleteMessage", "http", "dec")
    /\ emitted' = <<>>
    /\ UNCHANGED <<userDocs, messageDocs, nextId, activeConnections, sockets, counters>>
    /\ UNCHANGED adminStore

\* DELETE /api/channels/:id/messages: Channel.findById answers 404 or the channel
ClearChannelFind(id) ==
    IF ChannelFindById(id) = NoChan
    THEN HttpReject("clearChannel", "404", id)
    ELSE HttpStart("clearChannel", "deleteMany", NoMsg, ChannelFindById(id))

\* the store applies Message.deleteMany({channel: channel.name})
ChannelDeleteMany(t, kind, pc) ==
    /\ tasks[t].kind = kind /\ tasks[t].pc = "deleteMany"
    /\ messageDocs' = DeleteManyMessages(tasks[t].chan.name)
    /\ tasks' = [tasks EXCEPT ![t].pc = pc]
    /\ event' = Ev(kind, "http", "deleteMany")
    /\ emitted' = <<>>
    /\ UNCHANGED <<userDocs, channelDocs, nextId, activeConnections, sockets, counters>>
    /\ UNCHANGED adminStore

ClearChannelDeleteMany(t) == ChannelDeleteMany(t, "clearChannel", "reset")

\* the store applies Channel.findByIdAndUpdate(channelId, {messageCount: 0})
ClearChannelReset(t) ==
    /\ tasks[t].kind = "clearChannel" /\ tasks[t].pc = "reset"
    /\ channelDocs' = {IF c.id = tasks[t].chan.id THEN [c EXCEPT !.messageCount = 0] ELSE c : c \in channelDocs}
    /\ Finish(t)
    /\ event' = Ev("clearChannel", "http", "reset")
    /\ emitted' = <<>>
    /\ UNCHANGED <<userDocs, messageDocs, nextId, activeConnections, sockets, counters>>
    /\ UNCHANGED adminStore

\* DELETE /api/channels/:id: Channel.findById answers 404 or the channel
DeleteChannelFind(id) ==
    IF ChannelFindById(id) = NoChan
    THEN HttpReject("deleteChannel", "404", id)
    ELSE HttpStart("deleteChannel", "deleteMany", NoMsg, ChannelFindById(id))

DeleteChannelDeleteMany(t) == ChannelDeleteMany(t, "deleteChannel", "delete")

\* the store applies Channel.findByIdAndDelete(channelId)
DeleteChannelDelete(t) ==
    /\ tasks[t].kind = "deleteChannel" /\ tasks[t].pc = "delete"
    /\ channelDocs' = {c \in channelDocs : c.id # tasks[t].chan.id}
    /\ Finish(t)
    /\ event' = Ev("deleteChannel", "http", "delete")
    /\ emitted' = <<>>
    /\ UNCHANGED <<userDocs, messageDocs, nextId, activeConnections, sockets, counters>>
    /\ UNCHANGED adminStore

\* POST /api/channels: Channel.findOne({name}) answers 400 for an existing
\* name; else the system user is looked up and channel.save() is called
CreateChannelFind(name) ==
    IF ChannelFindByName(ToLowerCase(name)) # NoChan
    THEN HttpReject("createChannel", "400", 0)
    ELSE HttpStart("createChannel", "save", NoMsg,
                   [id |-> 0, name |-> ToLowerCase(name), messageCount |-> 0])

\* the store applies channel.save(); the unique index on name rejects a duplicate
CreateChannelSave(t) ==
    /\ tasks[t].kind = "createChannel" /\ tasks[t].pc = "save"
    /\ IF ChannelFindByName(tasks[t].chan.name) # NoChan
       THEN UNCHANGED <<channelDocs, nextId>>
       ELSE /\ channelDocs' = channelDocs \cup {[tasks[t].chan EXCEPT !.id = nextId]}
            /\ nextId' = nextId + 1
    /\ Finish(t)
    /\ event' = Ev("createChannel", "http", "save")
    /\ emitted' = <<>>
    /\ UNCHANGED <<userDocs, messageDocs, activeConnections, sockets, counters>>
    /\ UNCHANGED adminStore

\* VoiceChannel.findById / Role.findById / Role.findOne({name})
VoiceChannelFindById(id) ==
    IF \E c \in voiceChannelDocs : c.id = id
    THEN CHOOSE c \in voiceChannelDocs : c.id = id ELSE NoChan
RoleFindById(id) ==
    IF \E r \in roleDocs : r.id = id THEN CHOOSE r \in roleDocs : r.id = id ELSE NoChan
RoleFindByName(name) ==
    IF \E r \in roleDocs : r.name = name THEN CHOOSE r \in roleDocs : r.name = name ELSE NoChan

\* DELETE /api/voice-channels/:id: VoiceChannel.findById answers 404 or the channel
DeleteVoiceChannelFind_noCheck(id) ==
    HttpStart("deleteVoiceChannel", "delete", NoMsg, [id |-> id, name |-> Null])
DeleteVoiceChannelFind(id) ==
    IF VoiceChannelFindById(id) = NoChan
    THEN HttpReject("deleteVoiceChannel", "404", id)
    ELSE HttpStart("deleteVoiceChannel", "delete", NoMsg, VoiceChannelFindById(id))

\* the store applies VoiceChannel.findByIdAndDelete(voiceChannelId)
DeleteVoiceChannelDelete(t) ==
    /\ tasks[t].kind = "deleteVoiceChannel" /\ tasks[t].pc = "delete"
    /\ voiceChannelDocs' = {c \in voiceChannelDocs : c.id # tasks[t].chan.id}
    /\ Finish(t)
    /\ event' = Ev("deleteVoiceChannel", "http", "delete")
    /\ emitted' = <<>>
    /\ UNCHANGED <<store, roleDocs, activeConnections, sockets, counters>>

\* POST /api/roles names
RoleNames == {"Mod"}

\* POST /api/roles: Role.findOne({name}) answers 400 for an existing name,
\* else role.save() is called
CreateRoleFind(name) ==
    IF RoleFindByName(ToLowerCase(name)) # NoChan
    THEN HttpReject("createRole", "400", 0)
    ELSE HttpStart("createRole", "save", NoMsg, [id |-> 0, name |-> ToLowerCase(name)])

\* the store applies role.save(); the unique index on name rejects a duplicate
CreateRoleSave(t) ==
    /\ tasks[t].kind = "createRole" /\ tasks[t].pc = "save"
    /\ IF RoleFindByName(tasks[t].chan.name) # NoChan
       THEN UNCHANGED <<roleDocs, nextId>>
       ELSE /\ roleDocs' = roleDocs \cup {[tasks[t].chan EXCEPT !.id = nextId]}
            /\ nextId' = nextId + 1
    /\ Finish(t)
    /\ event' = Ev("createRole", "http", "save")
    /\ emitted' = <<>>
    /\ UNCHANGED <<userDocs, messageDocs, channelDocs, voiceChannelDocs,
                   activeConnections, sockets, counters>>

\* PUT /api/users/:id/role {roleId}: 400 without a roleId, 404 when
\* Role.findById answers null, else User.findByIdAndUpdate is called; the
\* event names the user id and the role id of the request
PutUserRoleFind(userId, roleId) ==
    /\ nEvents < MaxEvents
    /\ nEvents' = nEvents + 1 /\ UNCHANGED nBroadcasts
    /\ emitted' = <<>>
    /\ IF ~TruthyId(roleId)
       THEN event' = HttpEv("putUserRole", "400", <<userId, roleId>>) /\ UNCHANGED tasks
       ELSE IF RoleFindById(roleId) = NoChan
       THEN event' = HttpEv("putUserRole", "404", <<userId, roleId>>) /\ UNCHANGED tasks
       ELSE /\ HasFree
            /\ Spawn([Idle EXCEPT !.kind = "putUserRole", !.conn = "http", !.pc = "update",
                                  !.userId = userId, !.chan = RoleFindById(roleId)])
            /\ event' = HttpEv("putUserRole", "start", <<userId, roleId>>)
    /\ UNCHANGED <<store, activeConnections, sockets>>
    /\ UNCHANGED adminStore

\* the store applies User.findByIdAndUpdate(userId, {role: role.name}); it
\* answers null for an absent user and the route answers 404
PutUserRoleUpdate(t) ==
    /\ tasks[t].kind = "putUserRole" /\ tasks[t].pc = "update"
    /\ IF tasks[t].userId \in UserIds
       THEN /\ userDocs' = [userDocs EXCEPT ![tasks[t].userId].role = tasks[t].chan.name]
            /\ event' = HttpEv("putUserRole", "200", <<tasks[t].userId, tasks[t].chan.id>>)
       ELSE /\ UNCHANGED userDocs
            /\ event' = HttpEv("putUserRole", "404", <<tasks[t].userId, tasks[t].chan.id>>)
    /\ Finish(t)
    /\ emitted' = <<>>
    /\ UNCHANGED <<messageDocs, channelDocs, nextId, activeConnections, sockets, counters>>
    /\ UNCHANGED adminStore

\* GET /api/health: connectedUsers is activeConnections.size
HealthConnectedUsers == connectedUsers

\* GET /api/health: onlineUsers is User.countDocuments({isOnline: true})
onlineUsers == Cardinality({i \in UserIds : userDocs[i].isOnline})

\* ------------------------------------------------------------ restart
\* the names of a list that no document of a collection carries, in list order
Missing(names, docs) ==
    LET RECURSIVE Rest(_)
        Rest(i) == IF i > Len(names) THEN <<>>
                   ELSE IF \E c \in docs : c.name = names[i] THEN Rest(i + 1)
                   ELSE <<names[i]>> \o Rest(i + 1)
    IN  Rest(1)

\* User.findOne({ username: 'system' })
SystemFindOne ==
    IF \E i \in UserIds : userDocs[i].username = "system"
    THEN userDocs[CHOOSE i \in UserIds : userDocs[i].username = "system"]
    ELSE NoUser

\* systemUser.save() of a new system user is rejected by a unique index: the
\* catch block of initializeChannels logs and nothing more is created
InitializeFails == SystemFindOne = NoUser /\ DuplicateKey(SystemUser)

\* the default names initializeChannels creates a document for
Missing_everyName(names, docs) == names
MissingDefaults(names, docs) == IF InitializeFails THEN <<>> ELSE Missing(names, docs)

\* the process stops and starts again on the same database: the handlers in
\* flight and the connections are gone, activeConnections is a new Map, and
\* initializeChannels creates the system user when there is none, and the
\* default channels and voice channels that are missing; no other user
\* document is written
Restart ==
    /\ nEvents < MaxEvents
    /\ nEvents' = nEvents + 1 /\ UNCHANGED nBroadcasts
    /\ activeConnections' = <<>>
    /\ tasks' = [t \in Slots |-> Idle]
    /\ sockets' = [s \in Sockets |-> "new"]
    /\ userDocs' = IF SystemFindOne = NoUser /\ ~InitializeFails
                   THEN Append(userDocs, [SystemUser EXCEPT !.id = Len(userDocs) + 1])
                   ELSE userDocs
    /\ LET mc == MissingDefaults(channels, channelDocs)
           mv == MissingDefaults(defaultVoiceChannels, voiceChannelDocs)
       IN  /\ channelDocs' = channelDocs \cup
                  {[id |-> nextId + k - 1, name |-> mc[k], messageCount |-> 0] : k \in 1..Len(mc)}
           /\ voiceChannelDocs' = voiceChannelDocs \cup
                  {[id |-> nextId + Len(mc) + k - 1, name |-> mv[k]] : k \in 1..Len(mv)}
           /\ nextId' = nextId + Len(mc) + Len(mv)
    /\ event' = Ev("restart", Null, "start")
    /\ emitted' = <<>>
    /\ UNCHANGED <<messageDocs, roleDocs>>

\* ------------------------------------------------------- specifications
NextPresence ==
    \/ \E s \in Sockets : Connect(s)
    \/ \E s \in Sockets, d \in JoinPayloads : JoinStart(s, d)
    \/ \E t \in Slots : JoinFindOne(t)
    \/ \E t \in Slots : JoinInsert(t)
    \/ \E t \in Slots : JoinSave(t)
    \/ \E t \in Slots : JoinBind(t)
    \/ \E s \in Sockets : LeaveStart(s)
    \/ \E t \in Slots : LeaveFindById(t)
    \/ \E t \in Slots : LeaveSave(t)
    \/ \E t \in Slots : LeaveFinish(t)
    \/ \E s \in Sockets : DisconnectStart(s)
    \/ \E t \in Slots : DisconnectFindById(t)
    \/ \E t \in Slots : DisconnectSave(t)
    \/ \E t \in Slots : DisconnectFinish(t)

\* a state SpecPresence reaches: both sockets open, alice joined on s1 and
\* then on s2
InitMessaging ==
    /\ userDocs = <<SystemUser,
           [id |-> 2, username |-> "alice", walletAddress |-> "0xA", avatar |-> Null,
            role |-> "user", isOnline |-> TRUE, socketId |-> "s2"]>>
    /\ activeConnections = [s \in Sockets |-> 2]
    /\ messageDocs = {}
    /\ channelDocs = {[id |-> i, name |-> channels[i], messageCount |-> 0] : i \in 1..Len(channels)}
    /\ nextId = Len(channels) + 1
    /\ voiceChannelDocs = {[id |-> i, name |-> defaultVoiceChannels[i]] : i \in 1..Len(defaultVoiceChannels)}
    /\ roleDocs = {}
    /\ sockets = [s \in Sockets |-> "open"]
    /\ tasks = [t \in Slots |-> Idle]
    /\ nEvents = 0
    /\ nBroadcasts = 0
    /\ event = Ev("init", Null, "init")
    /\ emitted = <<>>

NextMessaging ==
    \/ \E s \in Sockets, d \in SendPayloads : SendStart(s, d)
    \/ \E t \in Slots : SendFindById(t)
    \/ \E t \in Slots : SendSave(t)
    \/ \E t \in Slots : SendInc(t)
    \/ \E t \in Slots : SendEmit(t)
    \/ \E s \in Sockets, d \in BroadcastPayloads : BroadcastStart(s, d)
    \/ \E t \in Slots : BroadcastFindById(t)
    \/ \E t \in Slots : BroadcastSave(t)
    \/ \E t \in Slots : BroadcastInc(t)
    \/ \E t \in Slots : BroadcastFanOut(t)
    \/ \E s \in Sockets : LeaveStart(s)
    \/ \E t \in Slots : LeaveFindById(t)
    \/ \E t \in Slots : LeaveSave(t)
    \/ \E t \in Slots : LeaveFinish(t)
    \/ \E s \in Sockets : DisconnectStart(s)
    \/ \E t \in Slots : DisconnectFindById(t)
    \/ \E t \in Slots : DisconnectSave(t)
    \/ \E t \in Slots : DisconnectFinish(t)

\* messages of one socket against the admin routes
NextAdmin ==
    \/ \E d \in SendPayloads : SendStart("s1", d)
    \/ \E t \in Slots : SendFindById(t)
    \/ \E t \in Slots : SendSave(t)
    \/ \E t \in Slots : SendInc(t)
    \/ \E t \in Slots : SendEmit(t)
    \/ \E d \in BroadcastPayloads : BroadcastStart("s1", d)
    \/ \E t \in Slots : BroadcastFindById(t)
    \/ \E t \in Slots : BroadcastSave(t)
    \/ \E t \in Slots : BroadcastInc(t)
    \/ \E t \in Slots : BroadcastFanOut(t)
    \/ \E id \in RequestIds : DeleteMessageFind(id)
    \/ \E t \in Slots : DeleteMessageDelete(t)
    \/ \E t \in Slots : DeleteMessageDec(t)
    \/ \E id \in RequestIds : ClearChannelFind(id)
    \/ \E t \in Slots : ClearChannelDeleteMany(t)
    \/ \E t \in Slots : ClearChannelReset(t)
    \/ \E id \in RequestIds : DeleteChannelFind(id)
    \/ \E t \in Slots : DeleteChannelDeleteMany(t)
    \/ \E t \in Slots : DeleteChannelDelete(t)
    \/ \E name \in CreateNames : CreateChannelFind(name)
    \/ \E t \in Slots : CreateChannelSave(t)

\* a state SpecPresence reaches: alice joined on s1, s2 has not connected
InitRelay ==
    /\ userDocs = <<SystemUser,
           [id |-> 2, username |-> "alice", walletAddress |-> "0xA", avatar |-> Null,
            role |-> "user", isOnline |-> TRUE, socketId |-> "s1"]>>
    /\ activeConnections = [s \in {"s1"} |-> 2]
    /\ messageDocs = {}
    /\ channelDocs = {[id |-> i, name |-> channels[i], messageCount |-> 0] : i \in 1..Len(channels)}
    /\ nextId = Len(channels) + 1
    /\ voiceChannelDocs = {[id |-> i, name |-> defaultVoiceChannels[i]] : i \in 1..Len(defaultVoiceChannels)}
    /\ roleDocs = {}
    /\ sockets = [s \in Sockets |-> IF s = "s1" THEN "open" ELSE "new"]
    /\ tasks = [t \in Slots |-> Idle]
    /\ nEvents = 0
    /\ nBroadcasts = 0
    /\ event = Ev("init", Null, "init")
    /\ emitted = <<>>

\* messages and typing indicators among connections of which some never join
NextRelay ==
    \/ \E s \in Sockets : Connect(s)
    \/ \E s \in Sockets, d \in TypingPayloads : Typing(s, d)
    \/ \E s \in Sockets, d \in SendPayloads : SendStart(s, d)
    \/ \E t \in Slots : SendFindById(t)
    \/ \E t \in Slots : SendSave(t)
    \/ \E t \in Slots : SendInc(t)
    \/ \E t \in Slots : SendEmit(t)
    \/ \E s \in Sockets : LeaveStart(s)
    \/ \E t \in Slots : LeaveFindById(t)
    \/ \E t \in Slots : LeaveSave(t)
    \/ \E t \in Slots : LeaveFinish(t)
    \/ \E s \in Sockets : DisconnectStart(s)
    \/ \E t \in Slots : DisconnectFindById(t)
    \/ \E t \in Slots : DisconnectSave(t)
    \/ \E t \in Slots : DisconnectFinish(t)

\* joins and broadcasts whose store calls may fail
NextFailure ==
    \/ \E s \in Sockets, d \in JoinPayloads : JoinStart(s, d)
    \/ \E t \in Slots : JoinFindOne(t)
    \/ \E t \in Slots : JoinInsert(t)
    \/ \E t \in Slots : JoinSave(t)
    \/ \E t \in Slots : JoinBind(t)
    \/ \E t \in Slots : JoinFail(t)
    \/ \E s \in Sockets, d \in BroadcastPayloads : BroadcastStart(s, d)
    \/ \E t \in Slots : BroadcastFindById(t)
    \/ \E t \in Slots : BroadcastSave(t)
    \/ \E t \in Slots : BroadcastInc(t)
    \/ \E t \in Slots : BroadcastFanOut(t)
    \/ \E t \in Slots : BroadcastFail(t)

\* joins and disconnects across restarts of the process
NextRestart ==
    \/ \E s \in Sockets : Connect(s)
    \/ \E s \in Sockets, d \in JoinPayloads : JoinStart(s, d)
    \/ \E t \in Slots : JoinFindOne(t)
    \/ \E t \in Slots : JoinInsert(t)
    \/ \E t \in Slots : JoinSave(t)
    \/ \E t \in Slots : JoinBind(t)
    \/ \E s \in Sockets : DisconnectStart(s)
    \/ \E t \in Slots : DisconnectFindById(t)
    \/ \E t \in Slots : DisconnectSave(t)
    \/ \E t \in Slots : DisconnectFinish(t)
    \/ Restart

\* the admin routes that look a document up by id, with messages of one socket
NextDirectory ==
    \/ \E d \in SendPayloads : SendStart("s1", d)
    \/ \E t \in Slots : SendFindById(t)
    \/ \E t \in Slots : SendSave(t)
    \/ \E t \in Slots : SendInc(t)
    \/ \E t \in Slots : SendEmit(t)
    \/ \E id \in RequestIds : DeleteMessageFind(id)
    \/ \E t \in Slots : DeleteMessageDelete(t)
    \/ \E t \in Slots : DeleteMessageDec(t)
    \/ \E id \in RequestIds : ClearChannelFind(id)
    \/ \E t \in Slots : ClearChannelDeleteMany(t)
    \/ \E t \in Slots : ClearChannelReset(t)
    \/ \E id \in RequestIds : DeleteChannelFind(id)
    \/ \E t \in Slots : DeleteChannelDeleteMany(t)
    \/ \E t \in Slots : DeleteChannelDelete(t)
    \/ \E id \in RequestIds : DeleteVoiceChannelFind(id)
    \/ \E t \in Slots : DeleteVoiceChannelDelete(t)
    \/ \E name \in RoleNames : CreateRoleFind(name)
    \/ \E t \in Slots : CreateRoleSave(t)
    \/ \E userId \in RequestIds, roleId \in RequestIds \cup {0} : PutUserRoleFind(userId, roleId)
    \/ \E t \in Slots : PutUserRoleUpdate(t)

\* the handlers that write Messages and counters, none of them failing:
\* sendMessage, broadcastMessage, message-delete and channel-clear
NextCounters ==
    \/ \E d \in SendPayloads : SendStart("s1", d)
    \/ \E t \in Slots : SendFindById(t)
    \/ \E t \in Slots : SendSave(t)
    \/ \E t \in Slots : SendInc(t)
    \/ \E t \in Slots : SendEmit(t)
    \/ \E d \in BroadcastPayloads : BroadcastStart("s1", d)
    \/ \E t \in Slots : BroadcastFindById(t)
    \/ \E t \in Slots : BroadcastSave(t)
    \/ \E t \in Slots : BroadcastInc(t)
    \/ \E t \in Slots : BroadcastFanOut(t)
    \/ \E id \in RequestIds : DeleteMessageFind(id)
    \/ \E t \in Slots : DeleteMessageDelete(t)
    \/ \E t \in Slots : DeleteMessageDec(t)
    \/ \E id \in RequestIds : ClearChannelFind(id)
    \/ \E t \in Slots : ClearChannelDeleteMany(t)
    \/ \E t \in Slots : ClearChannelReset(t)

\* joins, leaves and disconnects where a store call of a disconnect may fail
NextDrop ==
    \/ \E s \in Sockets : Connect(s)
    \/ \E s \in Sockets, d \in JoinPayloads : JoinStart(s, d)
    \/ \E t \in Slots : JoinFindOne(t)
    \/ \E t \in Slots : JoinInsert(t)
    \/ \E t \in Slots : JoinSave(t)
    \/ \E t \in Slots : JoinBind(t)
    \/ \E s \in Sockets : LeaveStart(s)
    \/ \E t \in Slots : LeaveFindById(t)
    \/ \E t \in Slots : LeaveSave(t)
    \/ \E t \in Slots : LeaveFinish(t)
    \/ \E s \in Sockets : DisconnectStart(s)
    \/ \E t \in Slots : DisconnectFindById(t)
    \/ \E t \in Slots : DisconnectSave(t)
    \/ \E t \in Slots : DisconnectFinish(t)
    \/ \E t \in Slots : DisconnectFail(t)

\* an empty database and a process that has not started yet
InitEmpty ==
    /\ userDocs = <<>>
    /\ messageDocs = {}
    /\ channelDocs = {}
    /\ nextId = 1
    /\ voiceChannelDocs = {}
    /\ roleDocs = {}
    /\ activeConnections = <<>>
    /\ sockets = [s \in Sockets |-> "new"]
    /\ tasks = [t \in Slots |-> Idle]
    /\ nEvents = 0
    /\ nBroadcasts = 0
    /\ event = Ev("init", Null, "init")
    /\ emitted = <<>>

\* starts of the process on an empty database, and on one with messages of
\* s1 and with default channels and voice channels the admin routes deleted
NextStartup ==
    \/ \E d \in SendPayloads : SendStart("s1", d)
    \/ \E t \in Slots : SendFindById(t)
    \/ \E t \in Slots : SendSave(t)
    \/ \E t \in Slots : SendInc(t)
    \/ \E t \in Slots : SendEmit(t)
    \/ \E id \in RequestIds : DeleteChannelFind(id)
    \/ \E t \in Slots : DeleteChannelDeleteMany(t)
    \/ \E t \in Slots : DeleteChannelDelete(t)
    \/ \E id \in RequestIds : DeleteVoiceChannelFind(id)
    \/ \E t \in Slots : DeleteVoiceChannelDelete(t)
    \/ Restart

SpecPresence == Init /\ [][NextPresence]_vars
SpecStartup == (InitEmpty \/ InitMessaging) /\ [][NextStartup]_vars
SpecDrop == Init /\ [][NextDrop]_vars
SpecCounters == InitMessaging /\ [][NextCounters]_vars
SpecDirectory == InitMessaging /\ [][NextDirectory]_vars
SpecRestart == Init /\ [][NextRestart]_vars
SpecFailure == InitMessaging /\ [][NextFailure]_vars
SpecRelay == InitRelay /\ [][NextRelay]_vars
SpecMessaging == InitMessaging /\ [][NextMessaging]_vars
SpecAdmin == InitMessaging /\ [][NextAdmin]_vars

\* =================================================================== claims
\* task t takes a step of its handler `kind` from position pc
Steps(t, kind, pc) == tasks[t].kind = kind /\ tasks[t].pc = pc /\ tasks'[t] # tasks[t]

BoundTo(i) == {s \in DOMAIN activeConnections : activeConnections[s] = i}

\* C1: whenever no handler is suspended at a store call, a user's isOnline flag
\* in the store is true if and only if activeConnections holds at least one
\* entry whose value is that user's id (the claim says so of every reachable
\* state, so of these states too).
C1_OnlineIffBound ==
    Quiescent => \A i \in UserIds : userDocs[i].isOnline <=> BoundTo(i) # {}

\* C8: in every reachable state activeConnections never contains two different
\* connection ids mapped to the same user id.
C8_OneConnectionPerUser ==
    \A a, b \in DOMAIN activeConnections :
        activeConnections[a] = activeConnections[b] => a = b

NoDuplicateUsers ==
    \A i, j \in UserIds :
        (userDocs[i].username = userDocs[j].username
         \/ userDocs[i].walletAddress = userDocs[j].walletAddress) => i = j

\* C3: the save of a join that found a user with its username or walletAddress
\* updates that user in place and creates no record, the save of a join that
\* found none creates exactly one record, and no two user records ever share
\* a username or a walletAddress; also when join handlers interleave.
C3_FindOrCreate ==
    [][\A t \in Slots :
          /\ Steps(t, "join", "update") =>
                /\ Len(userDocs') = Len(userDocs)
                /\ userDocs'[tasks[t].user.id].socketId = tasks[t].conn
                /\ tasks'[t].pc = "bind"
          /\ Steps(t, "join", "insert") =>
                /\ Len(userDocs') = Len(userDocs) + 1
                /\ tasks'[t].pc = "bind"
          /\ NoDuplicateUsers']_vars

\* the avatar a join hands on: the payload's when it has one, else the one
\* of the user it found, and none for a new user
JoinedAvatar(tk) ==
    IF tk.data.avatar # Null THEN tk.data.avatar
    ELSE IF tk.user = NoUser THEN Null ELSE tk.user.avatar

C9_OfflineOnCompletion ==
    [][\A t \in Slots : \A kind \in {"leave", "disconnect"} :
          Steps(t, kind, "finish") =>
             LET s == tasks[t].conn
                 i == tasks[t].userId
             IN  /\ userDocs'[i].isOnline = FALSE
                 /\ userDocs'[i].socketId = Null
                 /\ emitted' = <<[ev |-> "userLeft", to |-> Live \ {s},
                                  body |-> [username |-> userDocs[i].username,
                                            avatar |-> tasks[t].user.avatar]]>>
                 /\ ~MapHas(s)'
                 /\ connectedUsers' = connectedUsers - 1]_vars

MessageKinds == {"sendMessage", "broadcastMessage"}

OneMessageErrorTo(s) ==
    /\ Len(emitted') = 1
    /\ emitted'[1].ev = "messageError"
    /\ emitted'[1].to = {s}

\* C2: a sendMessage or broadcastMessage event from a connection without an
\* activeConnections entry, or whose resolved user is absent from the store or
\* has isOnline false when the handler reads it, persists no Message, changes
\* no channel counter, emits no newMessage and emits exactly one messageError,
\* to the originating connection only; the handler ends there.
C2_RejectedWithoutWrites ==
    [][/\ \A s \in Sockets :
             (/\ event'.kind \in MessageKinds /\ event'.conn = s
              /\ event'.pc \in {"start", "noEntry"}
              /\ ~MapHas(s)) =>
                /\ OneMessageErrorTo(s)
                /\ messageDocs' = messageDocs /\ channelDocs' = channelDocs
                /\ tasks' = tasks
       /\ \A t \in Slots : \A kind \in MessageKinds :
             (/\ Steps(t, kind, "findById")
              /\ \/ tasks[t].userId \notin UserIds
                 \/ ~userDocs[tasks[t].userId].isOnline) =>
                /\ OneMessageErrorTo(tasks[t].conn)
                /\ messageDocs' = messageDocs /\ channelDocs' = channelDocs
                /\ tasks'[t] = Idle]_vars

\* C2 witness: s1 still has its entry, its user went offline, and its
\* sendMessage was answered with one messageError
C2_Witness ==
    /\ event = Ev("sendMessage", "s1", "findById")
    /\ MapHas("s1") /\ ~userDocs[activeConnections["s1"]].isOnline
    /\ Len(emitted) = 1 /\ emitted[1].ev = "messageError" /\ emitted[1].to = {"s1"}
    /\ messageDocs = {}

\* the messageCount of the channel called name, -1 when there is none
CountOf(docs, name) ==
    IF \E c \in docs : c.name = name
    THEN (CHOOSE c \in docs : c.name = name).messageCount
    ELSE -1

ChannelNames(docs) == {c.name : c \in docs}

\* the channel a sendMessage payload names, 'general' when it names none
ClaimedChannel(d) == IF d.channel = Null THEN "general" ELSE d.channel

C6_CountMatchesMessages ==
    Quiescent =>
       \A c \in channelDocs :
          c.messageCount = Cardinality({m \in messageDocs : m.channel = c.name})

\* C7: when DELETE /api/channels/:id completes for a channel that existed, no
\* persisted Message is labelled with the deleted channel's name, and the
\* request removed no Message labelled with another channel; also with
\* sendMessage or broadcastMessage handlers in flight.
C7_DeleteChannelCascades ==
    [][\A t \in Slots :
          /\ Steps(t, "deleteChannel", "delete") =>
                \A m \in messageDocs' : m.channel # tasks[t].chan.name
          /\ Steps(t, "deleteChannel", "deleteMany") =>
                \A m \in messageDocs : m.channel # tasks[t].chan.name => m \in messageDocs']_vars

\* no emit call of the step is a newMessage
NoNewMessage == \A i \in 1..Len(emitted') : emitted'[i].ev # "newMessage"

\* C11: the last step of a successful sendMessage emits exactly one newMessage,
\* for the record the handler persisted, to every live connection (the sender
\* and connections without an entry included, whatever the channel) and ends
\* the handler; no other step of a sendMessage handler, in particular none that
\* emits messageError, emits a newMessage.
C11_SendReachesEveryLiveConnection ==
    [][/\ \A t \in Slots :
             /\ Steps(t, "sendMessage", "emit") =>
                   /\ emitted' = <<[ev |-> "newMessage",
                                    to |-> {s \in Sockets : sockets'[s] = "open"},
                                    body |-> MessageBody(tasks[t].msg)]>>
                   /\ tasks[t].msg \in messageDocs
                   /\ tasks'[t] = Idle
             /\ (tasks[t].kind = "sendMessage" /\ tasks[t].pc # "emit" /\ tasks'[t] # tasks[t]) =>
                   NoNewMessage
       /\ event'.kind = "sendMessage" /\ event'.pc \in {"start", "noEntry"} => NoNewMessage]_vars

\* C11 witness: a sendMessage to 'trading' from s1 was emitted to s1 and to
\* s2, which is connected and never joined
C11_Witness ==
    /\ event = Ev("sendMessage", "s1", "emit")
    /\ Len(emitted) = 1 /\ emitted[1].to = {"s1", "s2"}
    /\ emitted[1].body.channel = "trading"
    /\ ~MapHas("s2")

\* the ids of the Messages a handler in flight has persisted and not yet emitted
Held ==
    UNION {   (IF tasks[t].kind \in MessageKinds /\ tasks[t].pc \in {"inc", "emit"} /\ tasks[t].msg # NoMsg
               THEN {tasks[t].msg.id} ELSE {})
         \cup {tasks[t].acc[i].id : i \in 1..Len(tasks[t].acc)} : t \in Slots}

\* the ids of the persisted Messages whose newMessage has been emitted (where
\* no Message is deleted: the specification of the message handlers)
Delivered == {m.id : m \in messageDocs} \ Held

\* C12: ids are given in the order the saves complete; whenever a newMessage
\* is emitted to some live connection, every Message whose newMessage was
\* emitted before (to the connections live then, these among them) was
\* persisted before it, and the newMessages of one step go out in the order
\* their Messages were persisted.
C12_DeliveryInPersistenceOrder ==
    [][\A i \in 1..Len(emitted') :
          (emitted'[i].ev = "newMessage" /\ emitted'[i].to # {}) =>
             /\ \A k \in Delivered : k < emitted'[i].body.id
             /\ \A j \in 1..(i - 1) : emitted'[j].body.id < emitted'[i].body.id]_vars

\* the handlers that read activeConnections before their first await
ReadsRegistryFirst == {"leave", "disconnect", "sendMessage", "broadcastMessage"}

\* handler u is in flight and has read the registry, written to the store or
\* emitted (a join has, once its save is applied)
HasActed(u) ==
    /\ tasks[u].kind # "idle" /\ tasks[u].conn \in Sockets
    /\ tasks[u].kind = "join" => tasks[u].pc = "bind"

\* this step of handler t writes to the store, writes the registry or emits
ActsNow(t) ==
    /\ tasks'[t] # tasks[t]
    /\ \/ tasks[t].kind = "join" /\ tasks[t].pc \in {"insert", "update", "bind"}
       \/ tasks[t].kind \in ReadsRegistryFirst /\ tasks[t].pc \in {"save", "inc", "finish", "emit"}

\* C13: the handlers of one connection do not overlap: a handler does not
\* read the registry at its start, and none writes to the store, writes the
\* registry or emits, while another handler of the same connection that has
\* already done one of these is still in flight.
C13_OneHandlerPerConnectionAtATime ==
    [][/\ \A t, u \in Slots :
             (t # u /\ ActsNow(t) /\ HasActed(u)) => tasks[u].conn # tasks[t].conn
       /\ \A u \in Slots :
             (event'.kind \in ReadsRegistryFirst /\ event'.pc \in {"start", "noEntry"} /\ HasActed(u)) =>
                tasks[u].conn # event'.conn]_vars

\* C14: a step that ends a join handler otherwise than by binding (a store
\* call failed) emits exactly one joinError, to the originating connection
\* only, leaves activeConnections, the sockets and every other handler as they
\* were; and no step of a join before the binding one writes activeConnections
\* or emits userJoined.
C14_JoinFailureIsLocal ==
    [][\A t \in Slots :
          /\ (tasks[t].kind = "join" /\ tasks'[t] = Idle /\ event'.pc # "bind") =>
                /\ emitted' = <<[ev |-> "joinError", to |-> {tasks[t].conn}, body |-> NoData]>>
                /\ activeConnections' = activeConnections
                /\ sockets' = sockets
                /\ \A u \in Slots \ {t} : tasks'[u] = tasks[u]
          /\ (tasks[t].kind = "join" /\ tasks[t].pc # "bind" /\ tasks'[t] # tasks[t]) =>
                /\ activeConnections' = activeConnections
                /\ \A i \in 1..Len(emitted') : emitted'[i].ev # "userJoined"]_vars

\* C14 witness: the save of s1's join failed and s1 alone got joinError,
\* while a join of s2 is in flight and goes on
C14_Witness ==
    /\ event = Ev("join", "s1", "fail")
    /\ emitted = <<[ev |-> "joinError", to |-> {"s1"}, body |-> NoData]>>
    /\ \E u \in Slots : tasks[u].kind = "join" /\ tasks[u].conn = "s2" /\ tasks[u].pc = "bind"

\* C15: right after a restart, before any join is handled, activeConnections
\* is empty, no user has isOnline true in the store and the onlineUsers count
\* is 0, also when a connection was bound to the user as the process stopped.
C15_OfflineAfterRestart ==
    event.kind = "restart" =>
       /\ connectedUsers = 0
       /\ onlineUsers = 0
       /\ \A i \in UserIds : ~userDocs[i].isOnline

\* the newMessage bodies of the Messages broadcast handler t has persisted
CreatedBy(t) ==
    tasks[t].acc \o (IF tasks[t].pc = "inc" THEN <<MessageBody(tasks[t].msg)>> ELSE <<>>)

\* C16: the step that ends a broadcastMessage handler, after the last write or
\* after a write that failed, emits for every Message the handler persisted
\* exactly one newMessage, to every live connection.
C16_EveryCreatedBroadcastIsEmitted ==
    [][\A t \in Slots :
          (tasks[t].kind = "broadcastMessage" /\ tasks'[t] = Idle) =>
             \A i \in 1..Len(CreatedBy(t)) :
                Cardinality({j \in 1..Len(emitted') :
                                emitted'[j] = [ev |-> "newMessage",
                                               to |-> {s \in Sockets : sockets'[s] = "open"},
                                               body |-> CreatedBy(t)[i]]}) = 1]_vars

\* C17: in every reachable state the channel label of every persisted Message
\* is the name of a channel that exists in the store.
C17_MessagesNameExistingChannels ==
    \A m \in messageDocs : m.channel \in ChannelNames(channelDocs)

\* C18: a typing event from a connection with an activeConnections entry
\* emits exactly one userTyping, carrying the entry's user id and the flag of
\* the event, to every other live connection and not to the originator, and
\* changes neither activeConnections nor any store record nor any handler.
C18_TypingRelaysAndKeepsState ==
    [][\A s \in Sockets :
          (event'.kind = "typing" /\ event'.conn = s /\ MapHas(s)) =>
             /\ event'.pc \in {"isTyping", "notTyping"}
             /\ emitted' = <<[ev |-> "userTyping",
                              to |-> {x \in Sockets : sockets[x] = "open"} \ {s},
                              body |-> [userId |-> activeConnections[s],
                                        isTyping |-> (event'.pc = "isTyping")]]>>
             /\ activeConnections' = activeConnections
             /\ UNCHANGED <<store, adminStore, tasks, sockets>>]_vars

\* C18 witness: s1, bound, sent typing with isTyping true while s2 was
\* connected: s2 alone got userTyping
C18_Witness ==
    /\ event = Ev("typing", "s1", "isTyping")
    /\ Len(emitted) = 1 /\ emitted[1].ev = "userTyping" /\ emitted[1].to = {"s2"}
    /\ emitted[1].body = [userId |-> 2, isTyping |-> TRUE]

Ids(docs) == {d.id : d \in docs}

\* the step handles the arrival of a request of one of the routes `kinds`
Arrives(kinds) ==
    event'.conn = "http" /\ event'.kind \in kinds /\ event'.pc \in {"start", "404"}

\* the step answers 404, writes no record of any collection and starts no handler
NotFound ==
    /\ event'.pc = "404"
    /\ UNCHANGED <<store, adminStore>>
    /\ \A t \in Slots : tasks'[t] = tasks[t] \/ tasks'[t] = Idle

C20_CountsAgreeWhenQuiescent ==
    (\A t \in Slots : tasks[t] = Idle) =>
       \A name \in ChannelNames(channelDocs) :
          CountOf(channelDocs, name) = Cardinality({m \in messageDocs : m.channel = name})

\* connection s completed a join and has since neither sent an explicit leave
\* nor disconnected (where no join is handled: the specification of the
\* message handlers, which starts with both connections joined)
StillJoined(s) ==
    /\ sockets[s] = "open"
    /\ MapHas(s)
    /\ \A u \in Slots : tasks[u].conn = s => tasks[u].kind \notin {"leave", "disconnect"}

\* C21: a sendMessage of a connection whose join completed and that has
\* itself neither sent an explicit leave nor disconnected passes the
\* registered-and-online precondition: the handler starts, and when
\* User.findById answers it goes on to save the message and emits no
\* messageError, whatever was handled for the other connections.
C21_JoinedConnectionCanSend ==
    [][/\ \A s \in Sockets :
             (event'.kind = "sendMessage" /\ event'.conn = s
              /\ event'.pc \in {"start", "noEntry"} /\ StillJoined(s)) =>
                event'.pc = "start" /\ emitted' = <<>>
       /\ \A t \in Slots :
             (Steps(t, "sendMessage", "findById") /\ StillJoined(tasks[t].conn)) =>
                tasks'[t].pc = "save" /\ emitted' = <<>>]_vars

\* every handler started for connection s has run to completion
NoHandlerOf(s) == \A t \in Slots : tasks[t].conn # s

\* C22: once a connection has disconnected and no handler started for it is
\* still in flight, activeConnections holds no entry for it.
C22_NoEntryAfterDisconnect ==
    \A s \in Sockets : (sockets[s] = "closed" /\ NoHandlerOf(s)) => ~MapHas(s)

\* C23: the step in which a message.save() or a counter update of a
\* broadcastMessage fails writes nothing (every Message and every counter
\* stays as written; the Messages of the earlier channels are in the store and
\* their channels count them), ends the handler, so that no write for a later
\* channel follows, and emits exactly one messageError, to the originator.
C23_BroadcastFailureKeepsEarlierWrites ==
    [][\A t \in Slots :
          (/\ tasks[t].kind = "broadcastMessage" /\ tasks[t].pc \in {"save", "inc"}
           /\ tasks'[t] # tasks[t] /\ event'.pc = "fail") =>
             /\ UNCHANGED store
             /\ \A i \in 1..Len(tasks[t].acc) :
                   /\ \E m \in messageDocs' : MessageBody(m) = tasks[t].acc[i]
                   /\ tasks[t].acc[i].channel = channels[i]
                   /\ CountOf(channelDocs', channels[i]) >= 1
             /\ Len(tasks[t].acc) = tasks[t].idx - 1
             /\ tasks'[t] = Idle
             /\ OneMessageErrorTo(tasks[t].conn)]_vars

\* C23 witness: the save for the third channel of a broadcast of s1 failed;
\* the Messages of general and trading are stored and counted, nft has none,
\* no handler is left and s1 got messageError
C23_Witness ==
    /\ event = Ev("broadcastMessage", "s1", "fail")
    /\ Quiescent
    /\ {m.channel : m \in messageDocs} = {"general", "trading"}
    /\ CountOf(channelDocs, "general") = 1 /\ CountOf(channelDocs, "trading") = 1
    /\ CountOf(channelDocs, "nft") = 0
    /\ emitted = <<[ev |-> "messageError", to |-> {"s1"}, body |-> NoData]>>

\* C24: an explicit leave (join with a null payload) or a disconnect of a
\* connection without an activeConnections entry starts no handler, writes no
\* record of the store, leaves activeConnections as it was and emits nothing.
C24_LeaveWithoutEntryIsNoOp ==
    [][\A s \in Sockets :
          (/\ event'.kind \in {"leave", "disconnect"} /\ event'.conn = s
           /\ event'.pc \in {"start", "noEntry"} /\ ~MapHas(s)) =>
             /\ event'.pc = "noEntry"
             /\ emitted' = <<>>
             /\ activeConnections' = activeConnections
             /\ tasks' = tasks
             /\ UNCHANGED <<store, adminStore>>]_vars

\* C24 witness: s2, connected and without an entry, disconnected while s1 is
\* bound to a user that is online: nothing was emitted, the entry of s1 and
\* the user are as they were
C24_Witness ==
    /\ event = Ev("disconnect", "s2", "noEntry")
    /\ emitted = <<>>
    /\ DOMAIN activeConnections = {"s1"}
    /\ userDocs[activeConnections["s1"]].isOnline
    /\ Quiescent

\* the events the server sends to report an error
ErrorEvents == {"messageError", "joinError", "typingError", "error"}

\* C25: a typing event from a connection without an activeConnections entry
\* emits exactly one error event, to the originating connection only, and
\* changes neither activeConnections nor any store record nor any handler.
C25_TypingWithoutEntrySignalsError ==
    [][\A s \in Sockets :
          (event'.kind = "typing" /\ event'.conn = s /\ ~MapHas(s)) =>
             /\ Len(emitted') = 1
             /\ emitted'[1].ev \in ErrorEvents
             /\ emitted'[1].to = {s}
             /\ activeConnections' = activeConnections
             /\ UNCHANGED <<store, adminStore, tasks, sockets>>]_vars

\* C26: the save of a join that matched an existing user leaves that user's
\* username and walletAddress as stored, changes its avatar only to the
\* non-empty avatar of the payload and its role only to the non-empty role of
\* the payload (so a payload without them leaves both as stored), and writes
\* no other user; the other steps of a join change no existing user record.
C26_JoinKeepsIdentityFields ==
    [][\A t \in Slots :
          /\ Steps(t, "join", "update") =>
                LET i == tasks[t].user.id
                    d == tasks[t].data
                IN  /\ userDocs'[i].username = userDocs[i].username
                    /\ userDocs'[i].walletAddress = userDocs[i].walletAddress
                    /\ userDocs'[i].avatar # userDocs[i].avatar =>
                          Truthy(d.avatar) /\ userDocs'[i].avatar = d.avatar
                    /\ userDocs'[i].role # userDocs[i].role =>
                          Truthy(d.role) /\ userDocs'[i].role = d.role
                    /\ Len(userDocs') = Len(userDocs)
                    /\ \A j \in UserIds \ {i} : userDocs'[j] = userDocs[j]
          /\ (tasks[t].kind = "join" /\ tasks[t].pc # "update" /\ tasks'[t] # tasks[t]) =>
                \A j \in UserIds : userDocs'[j] = userDocs[j]]_vars

\* C26 witness: a join without avatar and role had loaded alice before
\* another join gave her an avatar and a role; its save has just been applied
\* and the stored avatar and role are still those of the other join
C26_Witness ==
    \E t \in Slots :
       /\ tasks[t].kind = "join" /\ tasks[t].pc = "bind"
       /\ event = Ev("join", tasks[t].conn, "update")
       /\ tasks[t].data.avatar = Null /\ tasks[t].data.role = Null
       /\ tasks[t].user # NoUser
       /\ tasks[t].user.avatar = Null
       /\ userDocs[tasks[t].user.id].avatar = "a.png"
       /\ userDocs[tasks[t].user.id].role = "mod"
       /\ userDocs[tasks[t].user.id].username = "alice"

\* the ids of the newMessage events connection s receives from the emit
\* calls of the step, in the order of the calls
NewMessagesTo(s) ==
    LET got == SelectSeq(emitted', LAMBDA e : e.ev = "newMessage" /\ s \in e.to)
    IN  [i \in 1..Len(got) |-> got[i].body.id]

\* C27: the emit calls of a step are delivered in call order and steps follow
\* one another, so connections see the same order when every step hands its
\* newMessage events to all live connections alike: any two live connections
\* receive the same newMessage events of a step in the same order, and none
\* is left out; and the step that ends a broadcastMessage emits the
\* newMessage events of its Messages, one per channel in the order of the
\* fixed list, and no other event.
C27_SameOrderForEveryConnection ==
    [][/\ \A a, b \in Live : NewMessagesTo(a) = NewMessagesTo(b)
       /\ \A i \in 1..Len(emitted') : emitted'[i].ev = "newMessage" => emitted'[i].to = Live
       /\ \A t \in Slots :
             Steps(t, "broadcastMessage", "emit") =>
                /\ Len(emitted') = Len(channels)
                /\ \A k \in 1..Len(channels) :
                      /\ emitted'[k].ev = "newMessage"
                      /\ emitted'[k].body = tasks[t].acc[k]
                      /\ emitted'[k].body.channel = channels[k]
                      /\ emitted'[k].body.username = tasks[t].user.username]_vars

\* C27 witness: a broadcast has emitted its five newMessage events to s1 and
\* s2, both live, while the Message of a sendMessage was persisted between
\* its first and its last Message
C27_Witness ==
    /\ event.kind = "broadcastMessage" /\ event.pc = "emit"
    /\ Live = {"s1", "s2"}
    /\ Len(emitted) = 5
    /\ \A k \in 1..5 : emitted[k].to = {"s1", "s2"} /\ emitted[k].body.channel = channels[k]
    /\ \E m \in messageDocs :
          ~m.isBroadcast /\ emitted[1].body.id < m.id /\ m.id < emitted[5].body.id

\* C28: where no join is handled after the start (the specification of the
\* relay, in which s1 starts bound), a connection has one binding, and the
\* step that emits userLeft for it removes its entry; so at most one userLeft
\* is emitted for the binding exactly when every step that emits userLeft
\* for a connection still finds that connection's entry in activeConnections.
C28_OneUserLeftPerBinding ==
    [][\A t \in Slots : \A kind \in {"leave", "disconnect"} :
          (Steps(t, kind, "finish") /\ Len(emitted') > 0 /\ emitted'[1].ev = "userLeft") =>
             MapHas(tasks[t].conn)]_vars

\* a leave or a disconnect of connection s has been handled to its end: the
\* user it was bound to is offline and its entry is removed (where no join
\* is handled: the specification of the message handlers)
FullyLeft(s, userId) == ~MapHas(s) /\ ~userDocs[userId].isOnline

\* C29: no step of a sendMessage or broadcastMessage handler persists a
\* Message or emits a newMessage once the leave or the disconnect of its
\* connection has been handled to its end.
C29_NoMessageAfterLeave ==
    [][\A t \in Slots :
          (/\ tasks[t].kind \in MessageKinds /\ tasks'[t] # tasks[t]
           /\ FullyLeft(tasks[t].conn, tasks[t].userId)) =>
             /\ messageDocs' = messageDocs
             /\ NoNewMessage]_vars

\* the documents of a collection that carry the name
Named(docs, name) == {c \in docs : c.name = name}

\* C30: a start of the process leaves the store with exactly one user named
\* 'system' and exactly one channel for each name of general, trading, nft,
\* defi and announcements, keeps every channel, user and Message it found
\* as it was (messageCount included), and a start that directly follows a
\* start creates no record and changes none.
C30_StartupIsIdempotent ==
    [][event'.kind = "restart" =>
          /\ Cardinality({i \in 1..Len(userDocs') : userDocs'[i].username = "system"}) = 1
          /\ \A k \in 1..Len(channels) : Cardinality(Named(channelDocs', channels[k])) = 1
          /\ {channels[k] : k \in 1..Len(channels)} =
                {"general", "trading", "nft", "defi", "announcements"}
          /\ channelDocs \subseteq channelDocs'
          /\ \A c \in channelDocs' \ channelDocs : c.messageCount = 0
          /\ \A i \in UserIds : userDocs'[i] = userDocs[i]
          /\ messageDocs' = messageDocs
          /\ event.kind = "restart" => UNCHANGED <<store, adminStore>>]_vars

\* C30 witness: the process was started twice on a database that was empty:
\* one system user, the five channels and the three voice channels of the
\* first start, and nothing more
C30_Witness ==
    /\ event.kind = "restart" /\ nEvents = 2
    /\ Len(userDocs) = 1 /\ userDocs[1].username = "system"
    /\ {c.id : c \in channelDocs} = 1..5
    /\ {c.id : c \in voiceChannelDocs} = 6..8
    /\ nextId = 9

====
